---------------------------- MODULE Spec2Model ----------------------------
(***************************************************************************)
(* Model of the JSON utilities of spark-rapids-jni (json_utils.cu):        *)
(*   concat_json, make_structs, cast_strings_to_booleans, remove_quotes.   *)
(*                                                                         *)
(* A string row is a record [is_null, chars] where chars is a sequence of  *)
(* byte values 0..255.  A C++ `char` is the byte reinterpreted according   *)
(* to the signedness of `char` of the build (char_signed).                  *)
(***************************************************************************)
EXTENDS Integers, Sequences, FiniteSets, TLC

VARIABLES
  char_signed,       \* whether `char` is a signed type in this build
  input,             \* concat_json: the input strings column
  pc,                \* concat_json: position in the function body
  classified,        \* concat_json: rows the for_each kernel has written
  is_valid_input,    \* concat_json: device_uvector<bool> is_valid_input
  is_null_or_empty,  \* concat_json: device_uvector<bool> is_null_or_empty
  histogram,         \* concat_json: device_uvector<uint32_t> histogram
  delimiter,         \* concat_json: the chosen delimiter (byte value)
  concat,            \* concat_json: the bytes of the joined strings
  ms_pc,             \* make_structs: position
  ms_children,       \* make_structs: argument `children`
  ms_is_null,        \* make_structs: argument `is_null`
  ms_result,         \* make_structs: the outcome
  cb_pc,             \* cast_strings_to_booleans: position
  cb_input,          \* cast_strings_to_booleans: the input strings column
  cb_done,           \* cast_strings_to_booleans: rows tabulate has written
  cb_output,         \* cast_strings_to_booleans: BOOL8 values of `output`
  cb_validity,       \* cast_strings_to_booleans: device_uvector<bool> validity
  cb_result,         \* cast_strings_to_booleans: the returned column
  rq_pc,             \* remove_quotes: position
  rq_input,          \* remove_quotes: the input strings column
  rq_sized,          \* remove_quotes: rows tabulate has written
  rq_output_sizes,   \* remove_quotes: device_uvector<size_type> output_sizes
  rq_offsets,        \* remove_quotes: the offsets child of the output
  rq_chars_data,     \* remove_quotes: the output character buffer
  rq_writes,         \* remove_quotes: how often each output byte was written
  rq_copied,         \* remove_quotes: the <<row, byte>> copies done so far
  rq_oob,            \* remove_quotes: a copy wrote outside of the buffer
  rq_result          \* remove_quotes: the returned column

vars == <<char_signed, input, pc, classified, is_valid_input, is_null_or_empty,
          histogram, delimiter, concat, ms_pc, ms_children, ms_is_null,
          ms_result, cb_pc, cb_input, cb_done, cb_output, cb_validity,
          cb_result, rq_pc, rq_input, rq_sized, rq_output_sizes, rq_offsets,
          rq_chars_data, rq_writes, rq_copied, rq_oob, rq_result>>

concat_vars == <<input, pc, classified, is_valid_input, is_null_or_empty,
                 histogram, delimiter, concat>>
ms_vars == <<ms_pc, ms_children, ms_is_null, ms_result>>
cb_vars == <<cb_pc, cb_input, cb_done, cb_output, cb_validity, cb_result>>
rq_vars == <<rq_pc, rq_input, rq_sized, rq_output_sizes, rq_offsets,
             rq_chars_data, rq_writes, rq_copied, rq_oob, rq_result>>

---------------------------------------------------------------------------
(* Bounds of the model. *)
MaxRows == 2
MaxChildren == 2
MaxStructRows == 2
MaxCastRows == 2
MaxQuoteRows == 2

---------------------------------------------------------------------------
(* Helpers on sequences. *)
Range(a, b) == [k \in 1..(b - a + 1) |-> a + k - 1]

RECURSIVE Flatten(_)
Flatten(ss) == IF ss = <<>> THEN <<>> ELSE Head(ss) \o Flatten(Tail(ss))

SeqsUpTo(S, n) == UNION {[1..k -> S] : k \in 0..n}

CountTrue(bs) == Cardinality({k \in DOMAIN bs : bs[k]})

NullRow == [is_null |-> TRUE, chars |-> <<>>]
Str(s) == [is_null |-> FALSE, chars |-> s]

---------------------------------------------------------------------------
(* Characters used by the code, as byte values. *)
CH_TAB == 9
CH_LF == 10
CH_CR == 13
CH_SPACE == 32
start_character == 123

not_whitespace(ch) ==
  ch # CH_SPACE /\ ch # CH_CR /\ ch # CH_LF /\ ch # CH_TAB

\* A faulty variant: the tab is missing from the list.
can_be_delimiter_noTab(c) ==
  c \notin {123, 91, 125, 93, 44, 58, 34, 39, 92, CH_SPACE, CH_CR}

can_be_delimiter(c) ==
  c \notin {123, 91, 125, 93, 44, 58, 34, 39, 92, CH_SPACE, CH_TAB, CH_CR}

---------------------------------------------------------------------------
(* concat_json: the per-row classification kernel.  d_str[i] of the code   *)
(* is chars[i + 1] here.                                                    *)

\* The loops `for (; i < size; ++i) { ch = d_str[i]; if (not_whitespace(ch)) break; }`
RECURSIVE skip_whitespace(_, _)
skip_whitespace(chars, i) ==
  IF i < Len(chars) /\ ~not_whitespace(chars[i + 1])
  THEN skip_whitespace(chars, i + 1)
  ELSE i

starts_with_null(chars, i) ==
  /\ i + 3 < Len(chars)
  /\ chars[i + 1] = 110 /\ chars[i + 2] = 117
  /\ chars[i + 3] = 108 /\ chars[i + 4] = 108

\* A faulty variant: the `null` literal reported as null-or-empty.
classify_row_nullLiteralIsNull(row) ==
  IF row.is_null THEN <<FALSE, TRUE>>
  ELSE
    LET size == Len(row.chars)
        i0 == skip_whitespace(row.chars, 0)
        has_null == starts_with_null(row.chars, i0)
        i1 == IF has_null THEN skip_whitespace(row.chars, i0 + 4) ELSE i0
        not_eol == i1 < size
    IN  IF has_null /\ i1 = size THEN <<FALSE, TRUE>>
        ELSE IF not_eol /\ row.chars[i1 + 1] # start_character
             THEN <<FALSE, FALSE>>
             ELSE <<not_eol, ~not_eol>>

\* The pair written to output[idx]: <<is_valid_input, is_null_or_empty>>.
classify_row(row) ==
  IF row.is_null THEN <<FALSE, TRUE>>
  ELSE
    LET size == Len(row.chars)
        i0 == skip_whitespace(row.chars, 0)
        has_null == starts_with_null(row.chars, i0)
        \* after `i += 4` and the second loop; ch = d_str[i1] when i1 < size
        i1 == IF has_null THEN skip_whitespace(row.chars, i0 + 4) ELSE i0
        is_null_literal == has_null /\ i1 = size
        not_eol == i1 < size
    IN  IF is_null_literal THEN <<FALSE, FALSE>>
        ELSE IF not_eol /\ row.chars[i1 + 1] # start_character
             THEN <<FALSE, FALSE>>
             ELSE <<not_eol, ~not_eol>>

---------------------------------------------------------------------------
(* concat_json: the histogram and the search of the delimiter. *)
num_levels == 256
lower_level == IF char_signed THEN -128 ELSE 0
upper_level == IF char_signed THEN 127 ELSE 255
zero_level_idx == -lower_level

\* The value of a byte read through a `char`.
to_char(b) == IF char_signed /\ b >= 128 THEN b - 256 ELSE b

\* cub::DeviceHistogram::HistogramEven: num_levels - 1 bins of equal width
\* over [lower, upper); a sample outside of that range is not counted.  The
\* array has num_levels entries, the last one keeps the 0 it was filled with.
HistogramEven(samples, levels, lower, upper) ==
  LET bins == levels - 1
      \* the bin of every sample, -1 for a sample that is not counted
      bin_of == [p \in DOMAIN samples |->
                  LET v == to_char(samples[p])
                  IN  IF v >= lower /\ v < upper
                      THEN ((v - lower) * bins) \div (upper - lower)
                      ELSE -1]
  IN  [idx \in 0..(levels - 1) |->
        IF idx < bins
        THEN Cardinality({p \in DOMAIN samples : bin_of[p] = idx})
        ELSE 0]

\* thrust::find_if over [zero_level_it, end): the first index of the range
\* whose count is 0 and whose character can be a delimiter; num_levels when
\* there is none.
find_first_zero_count(counts, first) ==
  LET found == {idx \in first..(num_levels - 1) :
                  counts[idx] = 0 /\ can_be_delimiter(idx - zero_level_idx)}
  IN  IF found = {} THEN num_levels
      ELSE CHOOSE idx \in found : \A other \in found : idx <= other

---------------------------------------------------------------------------
(* concat_json: the concatenation. *)
\* A faulty variant: a null row is replaced by nothing.
narep_empty == <<>>

\* The text that replaces a null row: string_scalar("{}").
narep == <<123, 125>>

\* cudf::strings::detail::join_strings with a valid narep: every row gives
\* its bytes (narep for a null row), and the separator when it is not the
\* last row.
RECURSIVE join_rows(_, _, _, _)
join_rows(col, sep, na, idx) ==
  IF idx > Len(col) THEN <<>>
  ELSE (IF col[idx].is_null THEN na ELSE col[idx].chars)
       \o (IF idx < Len(col) THEN <<sep>> ELSE <<>>)
       \o join_rows(col, sep, na, idx + 1)

join_strings(col, sep, na) == join_rows(col, sep, na, 1)

null_count_of(col) == Cardinality({k \in DOMAIN col : col[k].is_null})

\* A faulty variant: the input column is joined with its own null mask.
joined_column_inputMask(col, valid) == col

\* The column handed to join_strings: the input itself when valid_if finds
\* as many nulls as the input has, else the input's bytes under the new mask.
joined_column(col, valid) ==
  LET null_count == Cardinality({k \in DOMAIN valid : ~valid[k]})
  IN  IF null_count = null_count_of(col) THEN col
      ELSE [k \in DOMAIN col |->
              [is_null |-> ~valid[k], chars |-> col[k].chars]]


---------------------------------------------------------------------------
(* make_structs. *)

\* A faulty variant: the validity is the is-null flag itself (thrust::identity).
struct_row_valid_identity(flag) == flag

\* The predicate valid_if applies to an entry of is_null: thrust::logical_not.
struct_row_valid(flag) == ~flag

NoStruct(status) ==
  [status |-> status, row_count |-> 0, valid |-> <<>>, null_count |-> 0,
   children |-> <<>>]

\* The outcomes of make_structs(children, is_null).  The null mask holds one
\* bit per entry of is_null; the struct column has row_count rows.  The column
\* is built without comparing the two sizes: a row past the end of is_null
\* reads its validity outside of what valid_if wrote, which may give either
\* value.  An empty is_null gives no mask at all: every row is valid.
make_structs_outcomes(children, is_null) ==
  IF Len(children) = 0 THEN {NoStruct("nullptr")}
  ELSE
    LET row_count == Len(children[1])
    IN  IF \E c \in DOMAIN children : Len(children[c]) # row_count
        THEN {NoStruct("cudf_error")}
        ELSE
          LET null_count == Cardinality({k \in DOMAIN is_null :
                                           ~struct_row_valid(is_null[k])})
              masks == IF Len(is_null) = 0
                       THEN {[k \in 1..row_count |-> TRUE]}
                       ELSE {m \in [1..row_count -> BOOLEAN] :
                               \A k \in 1..row_count :
                                 k <= Len(is_null) =>
                                   m[k] = struct_row_valid(is_null[k])}
          IN  {[status |-> "ok", row_count |-> row_count, valid |-> m,
                null_count |-> null_count, children |-> children] :
               m \in masks}

---------------------------------------------------------------------------
(* cast_strings_to_booleans. *)

\* A faulty variant: `true` without the comparison of the size.
is_true_literal_noSize(chars) ==
  /\ Len(chars) >= 4
  /\ chars[1] = 116 /\ chars[2] = 114 /\ chars[3] = 117 /\ chars[4] = 101

is_true_literal(chars) ==
  /\ Len(chars) = 4
  /\ chars[1] = 116 /\ chars[2] = 114 /\ chars[3] = 117 /\ chars[4] = 101

is_false_literal(chars) ==
  /\ Len(chars) = 5
  /\ chars[1] = 102 /\ chars[2] = 97 /\ chars[3] = 108
  /\ chars[4] = 115 /\ chars[5] = 101

\* The pair tabulate writes for a row: <<output value, validity>>.
cast_row(row) ==
  IF ~row.is_null /\ is_true_literal(row.chars) THEN <<TRUE, TRUE>>
  ELSE IF ~row.is_null /\ is_false_literal(row.chars) THEN <<FALSE, TRUE>>
  ELSE <<FALSE, FALSE>>

NoColumn == [size |-> 0, data |-> <<>>, valid |-> <<>>, null_count |-> 0,
             has_mask |-> FALSE]

\* The public function after the kernel: valid_if over `validity`, and the
\* mask is attached only when it holds a null.
bool_column(values, validity) ==
  LET null_count == Cardinality({k \in DOMAIN validity : ~validity[k]})
  IN  [size |-> Len(values), data |-> values,
       valid |-> IF null_count > 0 THEN validity
                 ELSE [k \in DOMAIN values |-> TRUE],
       null_count |-> null_count, has_mask |-> null_count > 0]


---------------------------------------------------------------------------
(* The inputs of concat_json. *)
S_null == <<110, 117, 108, 108>>                        \* null
S_obj1 == <<123, 34, 97, 34, 58, 49, 125>>              \* {"a":1}
S_obj2 == <<123, 34, 97, 34, 58, 50, 125>>              \* {"a":2}
S_notjson == <<110, 111, 116, 32, 106, 115, 111, 110>>  \* not json

RowPool ==
  { NullRow,
    Str(<<>>),
    Str(<<CH_SPACE, CH_TAB, CH_CR, CH_LF>>),
    Str(S_null),
    Str(<<CH_TAB>> \o S_null \o <<CH_LF>>),
    Str(S_obj1),
    Str(<<CH_SPACE, 123, 125>>),                        \* " {}"
    Str(S_notjson),
    Str(S_null \o S_obj1),                              \* null{"a":1}
    Str(S_null \o <<CH_SPACE, 120>>),                   \* "null x"
    Str(<<110, 117, 108>>),                             \* nul
    Str(<<123>> \o Range(0, 8)),                        \* { and the bytes 0..8
    Str(<<123, 127>>),                                  \* { and the byte 127
    Str(<<123, 200, 255>>) }                            \* { and high-bit bytes

\* Rows that hold every byte value up to a given one.
LongRows ==
  { Str(<<123>> \o Range(0, 126)),                      \* { and the bytes 0..126
    Str(<<123>> \o Range(0, 254)) }                     \* { and the bytes 0..254

\* A long row alone, or beside any other row.
LongInputs ==
  {<<a>> : a \in LongRows}
    \cup {<<a, b>> : a \in LongRows, b \in RowPool \cup LongRows}
    \cup {<<b, a>> : a \in LongRows, b \in RowPool}

ScenarioInput ==
  << Str(S_obj1), NullRow, Str(S_null), Str(<<CH_SPACE, CH_SPACE>>),
     Str(S_notjson), Str(S_obj2) >>

Inputs == SeqsUpTo(RowPool, MaxRows) \cup LongInputs \cup {ScenarioInput}

IdleConcat ==
  /\ input = <<>> /\ pc = "idle" /\ classified = {}
  /\ is_valid_input = <<>> /\ is_null_or_empty = <<>>
  /\ histogram = <<>> /\ delimiter = -1 /\ concat = <<>>

IdleStructs ==
  /\ ms_pc = "idle" /\ ms_children = <<>> /\ ms_is_null = <<>>
  /\ ms_result = NoStruct("none")

IdleCast ==
  /\ cb_pc = "idle" /\ cb_input = <<>> /\ cb_done = {}
  /\ cb_output = <<>> /\ cb_validity = <<>> /\ cb_result = NoColumn

NoStrings == [size |-> 0, offsets |-> <<0>>, chars |-> <<>>, valid |-> <<>>,
              null_count |-> 0]

IdleQuotes ==
  /\ rq_pc = "idle" /\ rq_input = <<>> /\ rq_sized = {}
  /\ rq_output_sizes = <<>> /\ rq_offsets = <<>> /\ rq_chars_data = <<>>
  /\ rq_writes = <<>> /\ rq_copied = {} /\ rq_oob = FALSE
  /\ rq_result = NoStrings

\* concat_json is entered: the two flag vectors are allocated.
Init ==
  /\ char_signed \in BOOLEAN
  /\ input \in Inputs
  /\ pc = "classify"
  /\ classified = {}
  /\ is_valid_input = [k \in DOMAIN input |-> FALSE]
  /\ is_null_or_empty = [k \in DOMAIN input |-> FALSE]
  /\ histogram = <<>>
  /\ delimiter = -1
  /\ concat = <<>>
  /\ IdleStructs
  /\ IdleCast
  /\ IdleQuotes

\* One row of the thrust::for_each kernel; the rows run in any order.
ClassifyRow(idx) ==
  /\ pc = "classify"
  /\ idx \in DOMAIN input
  /\ idx \notin classified
  /\ LET out == classify_row(input[idx])
     IN  /\ is_valid_input' = [is_valid_input EXCEPT ![idx] = out[1]]
         /\ is_null_or_empty' = [is_null_or_empty EXCEPT ![idx] = out[2]]
  /\ classified' = classified \cup {idx}
  /\ UNCHANGED <<char_signed, input, pc, histogram, delimiter, concat>>
  /\ UNCHANGED <<ms_vars, cb_vars, rq_vars>>

\* The histogram of all the bytes of the column, after the kernel (same stream).
BuildHistogram ==
  /\ pc = "classify"
  /\ classified = DOMAIN input
  /\ histogram' = HistogramEven(Flatten([k \in DOMAIN input |-> input[k].chars]),
                                num_levels, lower_level, upper_level)
  /\ pc' = "find"
  /\ UNCHANGED <<char_signed, input, classified, is_valid_input,
                 is_null_or_empty, delimiter, concat>>
  /\ UNCHANGED <<ms_vars, cb_vars, rq_vars>>

\* find_if, the throw of std::logic_error, or the delimiter.
FindDelimiter ==
  /\ pc = "find"
  /\ LET first_zero_count_pos == find_first_zero_count(histogram, zero_level_idx)
     IN  IF first_zero_count_pos = num_levels
         THEN /\ pc' = "logic_error"
              /\ UNCHANGED delimiter
         ELSE /\ pc' = "join"
              /\ delimiter' = first_zero_count_pos - zero_level_idx
  /\ UNCHANGED <<char_signed, input, classified, is_valid_input,
                 is_null_or_empty, histogram, concat>>
  /\ UNCHANGED <<ms_vars, cb_vars, rq_vars>>

\* valid_if over is_valid_input, join_strings, and the return.
JoinStrings ==
  /\ pc = "join"
  /\ concat' = join_strings(joined_column(input, is_valid_input), delimiter, narep)
  /\ pc' = "returned"
  /\ UNCHANGED <<char_signed, input, classified, is_valid_input,
                 is_null_or_empty, histogram, delimiter>>
  /\ UNCHANGED <<ms_vars, cb_vars, rq_vars>>

\* The caller reads the document and hands the columns it got, one row per
\* input row, and the returned flags to make_structs.
ReadDocument ==
  /\ pc = "returned"
  /\ ms_pc = "idle"
  /\ ms_children' = << [k \in DOMAIN input |-> 0] >>
  /\ ms_is_null' = is_null_or_empty
  /\ ms_pc' = "start"
  /\ pc' = "read"
  /\ UNCHANGED <<char_signed, input, classified, is_valid_input,
                 is_null_or_empty, histogram, delimiter, concat, ms_result>>
  /\ UNCHANGED <<cb_vars, rq_vars>>

make_structs ==
  /\ ms_pc = "start"
  /\ \E r \in make_structs_outcomes(ms_children, ms_is_null) : ms_result' = r
  /\ ms_pc' = "done"
  /\ UNCHANGED <<char_signed, concat_vars, ms_children, ms_is_null>>
  /\ UNCHANGED <<cb_vars, rq_vars>>

Next ==
  \/ \E idx \in DOMAIN input : ClassifyRow(idx)
  \/ BuildHistogram
  \/ FindDelimiter
  \/ JoinStrings
  \/ ReadDocument
  \/ make_structs

Spec == Init /\ [][Next]_vars

---------------------------------------------------------------------------
(* make_structs on its own inputs. *)
Columns == SeqsUpTo({0, 1}, MaxStructRows)

InitStructs ==
  /\ char_signed \in BOOLEAN
  /\ IdleConcat
  /\ ms_pc = "start"
  /\ ms_children \in SeqsUpTo(Columns, MaxChildren)
  /\ ms_is_null \in SeqsUpTo(BOOLEAN, MaxStructRows)
  /\ ms_result = NoStruct("none")
  /\ IdleCast
  /\ IdleQuotes

NextStructs == make_structs

SpecStructs == InitStructs /\ [][NextStructs]_vars

---------------------------------------------------------------------------
(* cast_strings_to_booleans on its own inputs. *)
CastPool ==
  { NullRow,
    Str(<<>>),
    Str(<<116, 114, 117, 101>>),                        \* true
    Str(<<102, 97, 108, 115, 101>>),                    \* false
    Str(<<84, 82, 85, 69>>),                            \* TRUE
    Str(<<70, 97, 108, 115, 101>>),                     \* False
    Str(<<CH_SPACE, 116, 114, 117, 101>>),              \* " true"
    Str(<<102, 97, 108, 115, 101, CH_SPACE>>),          \* "false "
    Str(<<116, 114, 117, 101, 101>>),                   \* truee
    Str(<<102, 97, 108, 115>>),                         \* fals
    Str(<<116, 114, 117>>),                             \* tru
    Str(<<49>>) }                                       \* 1

InitCast ==
  /\ char_signed \in BOOLEAN
  /\ IdleConcat
  /\ IdleStructs
  /\ cb_pc = "tabulate"
  /\ cb_input \in SeqsUpTo(CastPool, MaxCastRows)
  /\ cb_done = {}
  /\ cb_output = [k \in DOMAIN cb_input |-> FALSE]
  /\ cb_validity = [k \in DOMAIN cb_input |-> FALSE]
  /\ cb_result = NoColumn
  /\ IdleQuotes

\* One element of thrust::tabulate; the elements run in any order.
CastRow(idx) ==
  /\ cb_pc = "tabulate"
  /\ idx \in DOMAIN cb_input
  /\ idx \notin cb_done
  /\ LET out == cast_row(cb_input[idx])
     IN  /\ cb_output' = [cb_output EXCEPT ![idx] = out[1]]
         /\ cb_validity' = [cb_validity EXCEPT ![idx] = out[2]]
  /\ cb_done' = cb_done \cup {idx}
  /\ UNCHANGED <<char_signed, concat_vars, ms_vars, cb_pc, cb_input, cb_result>>
  /\ UNCHANGED rq_vars

\* valid_if, set_null_mask and the return of the public function.
CastReturn ==
  /\ cb_pc = "tabulate"
  /\ cb_done = DOMAIN cb_input
  /\ cb_result' = bool_column(cb_output, cb_validity)
  /\ cb_pc' = "returned"
  /\ UNCHANGED <<char_signed, concat_vars, ms_vars, cb_input, cb_done,
                 cb_output, cb_validity>>
  /\ UNCHANGED rq_vars

NextCast ==
  \/ \E idx \in DOMAIN cb_input : CastRow(idx)
  \/ CastReturn

SpecCast == InitCast /\ [][NextCast]_vars


---------------------------------------------------------------------------
(* remove_quotes. *)
CH_QUOTE == 34

\* A faulty variant: only the first byte is compared.
is_quoted_firstOnly(chars) ==
  Len(chars) > 1 /\ chars[1] = CH_QUOTE

\* size > 1 && d_str[0] == '"' && d_str[size - 1] == '"'
is_quoted(chars) ==
  Len(chars) > 1 /\ chars[1] = CH_QUOTE /\ chars[Len(chars)] = CH_QUOTE

\* The value tabulate writes to output_sizes[idx].
output_size(row) ==
  IF row.is_null THEN 0
  ELSE IF is_quoted(row.chars) THEN Len(row.chars) - 2 ELSE Len(row.chars)

RECURSIVE SumFirst(_, _)
SumFirst(sizes, k) == IF k = 0 THEN 0 ELSE SumFirst(sizes, k - 1) + sizes[k]

\* A faulty variant: an inclusive scan, entry idx holds the end of row idx.
make_offsets_child_column_inclusive(sizes) ==
  [k \in 1..(Len(sizes) + 1) |->
     SumFirst(sizes, IF k <= Len(sizes) THEN k ELSE Len(sizes))]

\* cudf::strings::detail::make_offsets_child_column: the exclusive scan of the
\* sizes, with the total as last entry.  offsets[idx] of the code is entry
\* idx + 1 here.
make_offsets_child_column(sizes) ==
  [k \in 1..(Len(sizes) + 1) |-> SumFirst(sizes, k - 1)]

\* The offsets child and the character buffer of the input column.
input_offsets(col) ==
  [k \in 1..(Len(col) + 1) |->
     SumFirst([r \in DOMAIN col |-> Len(col[r].chars)], k - 1)]

input_chars(col) == Flatten([k \in DOMAIN col |-> col[k].chars])

\* index_pair_fn for the row idx (1-based here): the 0-based position in the
\* input characters the copy starts from, and the number of bytes.
index_pair(col, sizes, idx) ==
  LET start_offset == input_offsets(col)[idx]
      end_offset == input_offsets(col)[idx + 1]
      input_size == end_offset - start_offset
      out_size == sizes[idx]
  IN  <<start_offset + (IF input_size = out_size THEN 0 ELSE 1), out_size>>

\* make_strings_column over the offsets and the buffer, with the null count
\* and the copied null mask of the input.
strings_column(col, offsets, chars) ==
  [size |-> Len(col), offsets |-> offsets, chars |-> chars,
   valid |-> [k \in DOMAIN col |-> ~col[k].is_null],
   null_count |-> null_count_of(col)]

QuotePool ==
  { NullRow,
    Str(<<>>),
    Str(<<CH_QUOTE>>),                                  \* "
    Str(<<CH_QUOTE, CH_QUOTE>>),                        \* ""
    Str(<<CH_QUOTE, 97, CH_QUOTE>>),                    \* "a"
    Str(<<CH_QUOTE, 97, 98, CH_QUOTE>>),                \* "ab"
    Str(<<97, 98>>),                                    \* ab
    Str(<<CH_QUOTE, 97>>),                              \* "a
    Str(<<97, CH_QUOTE>>) }                             \* a"

InitQuotes ==
  /\ char_signed \in BOOLEAN
  /\ IdleConcat
  /\ IdleStructs
  /\ IdleCast
  /\ rq_pc = "tabulate"
  /\ rq_input \in SeqsUpTo(QuotePool, MaxQuoteRows)
  /\ rq_sized = {}
  /\ rq_output_sizes = [k \in DOMAIN rq_input |-> 0]
  /\ rq_offsets = <<>>
  /\ rq_chars_data = <<>>
  /\ rq_writes = <<>>
  /\ rq_copied = {}
  /\ rq_oob = FALSE
  /\ rq_result = NoStrings

\* One element of thrust::tabulate over output_sizes; any order.
SizeRow(idx) ==
  /\ rq_pc = "tabulate"
  /\ idx \in DOMAIN rq_input
  /\ idx \notin rq_sized
  /\ rq_output_sizes' = [rq_output_sizes EXCEPT ![idx] = output_size(rq_input[idx])]
  /\ rq_sized' = rq_sized \cup {idx}
  /\ UNCHANGED <<char_signed, concat_vars, ms_vars, cb_vars>>
  /\ UNCHANGED <<rq_pc, rq_input, rq_offsets, rq_chars_data, rq_writes,
                 rq_copied, rq_oob, rq_result>>

\* make_offsets_child_column, and the allocation of chars_data (bytes long,
\* not initialised: -1 stands for a byte never written).
MakeOffsets ==
  /\ rq_pc = "tabulate"
  /\ rq_sized = DOMAIN rq_input
  /\ LET offsets == make_offsets_child_column(rq_output_sizes)
         bytes == offsets[Len(offsets)]
     IN  /\ rq_offsets' = offsets
         /\ rq_chars_data' = [p \in 1..bytes |-> -1]
         /\ rq_writes' = [p \in 1..bytes |-> 0]
  /\ rq_pc' = "copy"
  /\ UNCHANGED <<char_signed, concat_vars, ms_vars, cb_vars>>
  /\ UNCHANGED <<rq_input, rq_sized, rq_output_sizes, rq_copied, rq_oob,
                 rq_result>>

\* cub::DeviceMemcpy::Batched: byte k of the copy of row idx, from the input
\* characters to output + offsets[idx]; the copies run in any order.
CopyByte(idx, k) ==
  /\ rq_pc = "copy"
  /\ idx \in DOMAIN rq_input
  /\ k \in 0..(index_pair(rq_input, rq_output_sizes, idx)[2] - 1)
  /\ <<idx, k>> \notin rq_copied
  /\ LET src == index_pair(rq_input, rq_output_sizes, idx)[1] + k
         dst == rq_offsets[idx] + k
     IN  IF dst + 1 \in DOMAIN rq_chars_data
         THEN /\ rq_chars_data' =
                   [rq_chars_data EXCEPT ![dst + 1] = input_chars(rq_input)[src + 1]]
              /\ rq_writes' = [rq_writes EXCEPT ![dst + 1] = @ + 1]
              /\ UNCHANGED rq_oob
         ELSE /\ rq_oob' = TRUE
              /\ UNCHANGED <<rq_chars_data, rq_writes>>
  /\ rq_copied' = rq_copied \cup {<<idx, k>>}
  /\ UNCHANGED <<char_signed, concat_vars, ms_vars, cb_vars>>
  /\ UNCHANGED <<rq_pc, rq_input, rq_sized, rq_output_sizes, rq_offsets,
                 rq_result>>

AllCopied ==
  \A idx \in DOMAIN rq_input :
    \A k \in 0..(rq_output_sizes[idx] - 1) : <<idx, k>> \in rq_copied

\* make_strings_column and the return, once the batched copy is complete.
MakeStringsColumn ==
  /\ rq_pc = "copy"
  /\ AllCopied
  /\ rq_result' = strings_column(rq_input, rq_offsets, rq_chars_data)
  /\ rq_pc' = "returned"
  /\ UNCHANGED <<char_signed, concat_vars, ms_vars, cb_vars>>
  /\ UNCHANGED <<rq_input, rq_sized, rq_output_sizes, rq_offsets,
                 rq_chars_data, rq_writes, rq_copied, rq_oob>>

NextQuotes ==
  \/ \E idx \in DOMAIN rq_input : SizeRow(idx)
  \/ MakeOffsets
  \/ \E idx \in DOMAIN rq_input :
       \E k \in 0..(rq_output_sizes[idx] - 1) : CopyByte(idx, k)
  \/ MakeStringsColumn

SpecQuotes == InitQuotes /\ [][NextQuotes]_vars

---------------------------------------------------------------------------
(* The vocabulary of the properties, stated on the bytes of a row and not  *)
(* through the operators above.                                            *)
Whitespace == {32, 9, 13, 10}

IsBlank(chars) == \A k \in DOMAIN chars : chars[k] \in Whitespace

\* The row without its leading and trailing whitespace.
Trimmed(chars) ==
  LET keep == {k \in DOMAIN chars : chars[k] \notin Whitespace}
  IN  IF keep = {} THEN <<>>
      ELSE SubSeq(chars, CHOOSE a \in keep : \A b \in keep : a <= b,
                         CHOOSE a \in keep : \A b \in keep : a >= b)

IsNullLiteral(chars) == Trimmed(chars) = <<110, 117, 108, 108>>

\* The segments of doc between the occurrences of the byte d.
RECURSIVE Split(_, _)
Split(doc, d) ==
  LET at == {k \in DOMAIN doc : doc[k] = d}
  IN  IF at = {} THEN <<doc>>
      ELSE LET p == CHOOSE a \in at : \A b \in at : a <= b
           IN  <<SubSeq(doc, 1, p - 1)>> \o Split(SubSeq(doc, p + 1, Len(doc)), d)

Contains(seg, sub) ==
  \E a \in 0..(Len(seg) - Len(sub)) : SubSeq(seg, a + 1, a + Len(sub)) = sub

Occurrences(doc, d) == Cardinality({k \in DOMAIN doc : doc[k] = d})

\* concat_json has returned (its three results are is_null_or_empty, concat
\* and delimiter).
Returned == pc \in {"returned", "read"}

N == Len(input)

---------------------------------------------------------------------------
\* C1 (as stated): for every row, the returned flag is_null_or_empty is true
\* iff the row is null, is empty or whitespace-only, or is the literal `null`
\* optionally surrounded by whitespace.
C1_Original ==
  Returned =>
    \A i \in DOMAIN input :
      is_null_or_empty[i] =
        (input[i].is_null \/ IsBlank(input[i].chars)
           \/ IsNullLiteral(input[i].chars))

\* C1 (amended): for every row, the returned flag is_null_or_empty is true
\* iff the row is null, or is empty or whitespace-only; it is false for every
\* other row, a row that is the literal `null` included.
C1_NullOrEmpty ==
  Returned =>
    \A i \in DOMAIN input :
      /\ is_null_or_empty[i] = (input[i].is_null \/ IsBlank(input[i].chars))
      /\ (~input[i].is_null /\ IsNullLiteral(input[i].chars))
           => ~is_null_or_empty[i]

C1_Witness ==
  /\ Returned
  /\ \E i, j \in DOMAIN input :
       /\ ~input[i].is_null /\ IsNullLiteral(input[i].chars)
       /\ ~is_null_or_empty[i]
       /\ ~input[j].is_null /\ IsBlank(input[j].chars) /\ Len(input[j].chars) > 0
       /\ is_null_or_empty[j]

\* C2 (as stated): a row is a candidate object (is_valid_input) iff it is
\* non-null, non-empty after trimming whitespace, not the literal `null`, and
\* its first non-whitespace byte is `{`.
C2_Original ==
  (pc # "classify" /\ pc # "idle") =>
    \A i \in DOMAIN input :
      is_valid_input[i] =
        (/\ ~input[i].is_null
         /\ Trimmed(input[i].chars) # <<>>
         /\ ~IsNullLiteral(input[i].chars)
         /\ Trimmed(input[i].chars)[1] = 123)

\* C3 (as stated): the returned delimiter occurs in no row of the input.
C3_Original ==
  Returned =>
    \A i \in DOMAIN input :
      \A k \in DOMAIN input[i].chars : input[i].chars[k] # delimiter

\* C4 (as stated): the returned delimiter is none of { } [ ] , : " ' \ and
\* none of space, tab, CR, LF.
C4_Original ==
  Returned =>
    delimiter \notin {123, 125, 91, 93, 44, 58, 34, 39, 92, 32, 9, 13, 10}

\* C4 (amended): the returned delimiter is none of { } [ ] , : " ' \ and
\* none of space, tab, CR; LF is not excluded.
C4_DelimiterAllowed ==
  Returned =>
    delimiter \notin {123, 125, 91, 93, 44, 58, 34, 39, 92, 32, 9, 13}

\* A tab that does not occur in the input was passed over and LF was chosen.
C4_Witness ==
  /\ Returned
  /\ delimiter = 10
  /\ \A i \in DOMAIN input :
       \A k \in DOMAIN input[i].chars : input[i].chars[k] # 9

---------------------------------------------------------------------------
\* The payload of row i in the document, as the amended C5 states it.
Payload(i) == IF is_valid_input[i] THEN input[i].chars ELSE <<123, 125>>

\* The payload of row i as C5 states it.
PayloadOriginal(i) == IF is_valid_input[i] THEN input[i].chars ELSE <<>>

\* The 0-based position of the payload of row i in the document.
RECURSIVE Offset(_)
Offset(i) == IF i = 1 THEN 0 ELSE Offset(i - 1) + Len(Payload(i - 1)) + 1

RECURSIVE OffsetOriginal(_)
OffsetOriginal(i) ==
  IF i = 1 THEN 1 ELSE OffsetOriginal(i - 1) + Len(PayloadOriginal(i - 1)) + 1

\* C5 (as stated): the document is `{`, the N payloads joined by one delimiter
\* between consecutive rows, and `}`; the payload of a candidate row is its
\* bytes, the payload of every other row is empty.
C5_Original ==
  Returned =>
    /\ Len(concat) >= 2
    /\ concat[1] = 123
    /\ concat[Len(concat)] = 125
    /\ \A i \in DOMAIN input :
         /\ OffsetOriginal(i) + Len(PayloadOriginal(i)) < Len(concat)
         /\ SubSeq(concat, OffsetOriginal(i) + 1,
                   OffsetOriginal(i) + Len(PayloadOriginal(i))) = PayloadOriginal(i)
         /\ i < N => concat[OffsetOriginal(i) + Len(PayloadOriginal(i)) + 1] = delimiter
    /\ Len(concat) = 2 + (IF N = 0 THEN 0 ELSE OffsetOriginal(N) - 1 + Len(PayloadOriginal(N)))

\* C5 (amended): the document is the N payloads joined by one delimiter byte
\* between consecutive rows, with nothing before or after them; the payload of
\* a row with is_valid_input true is its bytes unchanged, the payload of every
\* other row is the two bytes `{}`.
C5_Document ==
  Returned =>
    /\ Len(concat) = (IF N = 0 THEN 0 ELSE Offset(N) + Len(Payload(N)))
    /\ \A i \in DOMAIN input :
         /\ SubSeq(concat, Offset(i) + 1, Offset(i) + Len(Payload(i))) = Payload(i)
         /\ i < N => concat[Offset(i) + Len(Payload(i)) + 1] = delimiter

C5_Witness ==
  /\ Returned
  /\ N >= 2
  /\ \E i, j \in DOMAIN input :
       /\ is_valid_input[i]
       /\ ~is_valid_input[j] /\ ~input[j].is_null /\ ~IsBlank(input[j].chars)
       /\ i < j

\* C6 (as stated): for N >= 1 rows, the document split at the delimiter gives
\* exactly N segments (it holds exactly N - 1 delimiter bytes), and the i-th
\* segment contains the bytes of row i for every candidate row i.
C6_Original ==
  (Returned /\ N >= 1) =>
    /\ Len(Split(concat, delimiter)) = N
    /\ Occurrences(concat, delimiter) = N - 1
    /\ \A i \in DOMAIN input :
         is_valid_input[i] => Contains(Split(concat, delimiter)[i], input[i].chars)

---------------------------------------------------------------------------
EqualRows(children, is_null) ==
  /\ Len(children) > 0
  /\ \A c \in DOMAIN children : Len(children[c]) = Len(is_null)

\* C7: for a non-empty list of children of R rows each and an is-null vector
\* of length R, make_structs returns a struct column of R rows, valid[i] is
\* NOT is_null[i], the null count is the number of true entries of is_null,
\* and the children are the given ones in the given order.
C7_StructValidity ==
  (ms_pc = "done" /\ EqualRows(ms_children, ms_is_null)) =>
    /\ ms_result.status = "ok"
    /\ ms_result.row_count = Len(ms_is_null)
    /\ Len(ms_result.valid) = Len(ms_is_null)
    /\ \A i \in DOMAIN ms_is_null : ms_result.valid[i] = ~ms_is_null[i]
    /\ ms_result.null_count = CountTrue(ms_is_null)
    /\ ms_result.children = ms_children

C7_Witness ==
  /\ ms_pc = "done"
  /\ EqualRows(ms_children, ms_is_null)
  /\ Len(ms_children) = 2
  /\ ms_children[1] # ms_children[2]
  /\ Len(ms_is_null) = 2
  /\ ms_is_null[1] /\ ~ms_is_null[2]
  /\ ms_result.status = "ok"

\* C8 (as stated): make_structs reports an error and builds no struct column
\* whenever two children have different row counts or the length of the
\* is-null vector differs from the row count of the children.
C8_Original ==
  (/\ ms_pc = "done"
   /\ Len(ms_children) > 0
   /\ \/ \E c, d \in DOMAIN ms_children : Len(ms_children[c]) # Len(ms_children[d])
      \/ Len(ms_is_null) # Len(ms_children[1]))
    => ms_result.status = "cudf_error"

---------------------------------------------------------------------------
\* C9 (as stated): for the rows {"a":1}, null, `null`, two spaces, `not json`,
\* {"a":2}: candidate = [T,F,F,F,F,T], is_null_or_empty = [F,T,T,T,F,F], the
\* document holds 2 real payloads and 4 empty placeholders, and make_structs
\* on the returned vector gives the validity [T,F,F,F,F,T].
C9_Original ==
  (input = ScenarioInput /\ ms_pc = "done") =>
    /\ is_valid_input = <<TRUE, FALSE, FALSE, FALSE, FALSE, TRUE>>
    /\ is_null_or_empty = <<FALSE, TRUE, TRUE, TRUE, FALSE, FALSE>>
    /\ Split(concat, delimiter) = <<S_obj1, <<>>, <<>>, <<>>, <<>>, S_obj2>>
    /\ ms_result.valid = <<TRUE, FALSE, FALSE, FALSE, FALSE, TRUE>>

\* C9 (amended): for the same rows: candidate = [T,F,F,F,F,T],
\* is_null_or_empty = [F,T,F,T,F,F], the document holds the 2 real payloads
\* and 4 placeholders `{}`, and make_structs on the returned vector gives the
\* validity [T,F,T,F,T,T].
C9_Scenario ==
  (input = ScenarioInput /\ ms_pc = "done") =>
    /\ is_valid_input = <<TRUE, FALSE, FALSE, FALSE, FALSE, TRUE>>
    /\ is_null_or_empty = <<FALSE, TRUE, FALSE, TRUE, FALSE, FALSE>>
    /\ Split(concat, delimiter) =
         <<S_obj1, <<123, 125>>, <<123, 125>>, <<123, 125>>, <<123, 125>>, S_obj2>>
    /\ ms_result.status = "ok"
    /\ ms_result.valid = <<TRUE, FALSE, TRUE, FALSE, TRUE, TRUE>>

C9_Witness ==
  /\ input = ScenarioInput
  /\ ms_pc = "done"
  /\ ms_result.row_count = 6

---------------------------------------------------------------------------
\* C10: cast_strings_to_booleans returns a column of the input's row count;
\* row i is valid with value true iff the input row is non-null and its bytes
\* are exactly `true`, valid with value false iff they are exactly `false`,
\* and null for every other row.
C10_BooleanCast ==
  cb_pc = "returned" =>
    /\ cb_result.size = Len(cb_input)
    /\ Len(cb_result.valid) = Len(cb_input)
    /\ \A i \in DOMAIN cb_input :
         LET is_true == ~cb_input[i].is_null
                          /\ cb_input[i].chars = <<116, 114, 117, 101>>
             is_false == ~cb_input[i].is_null
                           /\ cb_input[i].chars = <<102, 97, 108, 115, 101>>
         IN  /\ (cb_result.valid[i] /\ cb_result.data[i]) <=> is_true
             /\ (cb_result.valid[i] /\ ~cb_result.data[i]) <=> is_false
             /\ ~cb_result.valid[i] <=> (~is_true /\ ~is_false)

C10_Witness ==
  /\ cb_pc = "returned"
  /\ \E i, j \in DOMAIN cb_input :
       /\ cb_result.valid[i] /\ cb_result.data[i]
       /\ ~cb_input[j].is_null /\ Len(cb_input[j].chars) > 4
       /\ ~cb_result.valid[j]

---------------------------------------------------------------------------
\* The row without its enclosing pair of double quotes, as C11 states it.
Unquoted(chars) ==
  IF Len(chars) > 1 /\ Head(chars) = 34 /\ chars[Len(chars)] = 34
  THEN SubSeq(chars, 2, Len(chars) - 1)
  ELSE chars

\* The bytes of row i of a strings column.
RowBytes(col, i) == SubSeq(col.chars, col.offsets[i] + 1, col.offsets[i + 1])

\* C11: remove_quotes returns a strings column of the same row count and the
\* same null positions; a non-null row is the input row without its first and
\* last byte when its length is > 1 and both are `"`, else the input row
\* unchanged (the row `"` stays, the row `""` becomes empty).
C11_RemoveQuotes ==
  rq_pc = "returned" =>
    /\ rq_result.size = Len(rq_input)
    /\ Len(rq_result.valid) = Len(rq_input)
    /\ Len(rq_result.offsets) = Len(rq_input) + 1
    /\ rq_result.null_count = Cardinality({i \in DOMAIN rq_input : rq_input[i].is_null})
    /\ \A i \in DOMAIN rq_input :
         /\ rq_result.valid[i] = ~rq_input[i].is_null
         /\ ~rq_input[i].is_null =>
              RowBytes(rq_result, i) = Unquoted(rq_input[i].chars)
         /\ rq_input[i].chars = <<34>> => RowBytes(rq_result, i) = <<34>>
         /\ rq_input[i].chars = <<34, 34>> => RowBytes(rq_result, i) = <<>>

C11_Witness ==
  /\ rq_pc = "returned"
  /\ \E i, j \in DOMAIN rq_input :
       /\ rq_input[i].chars = <<34>>
       /\ RowBytes(rq_result, i) = <<34>>
       /\ Len(rq_input[j].chars) > 2
       /\ Len(RowBytes(rq_result, j)) = Len(rq_input[j].chars) - 2

---------------------------------------------------------------------------
\* The byte values that occur in the content of the input.
ContentBytes ==
  UNION {{input[i].chars[k] : k \in DOMAIN input[i].chars} : i \in DOMAIN input}

\* The byte values that may serve as delimiter: absent from the content and
\* none of { [ } ] , : " ' \ space tab CR.
FreeBytes ==
  {b \in 0..255 :
     /\ b \notin ContentBytes
     /\ b \notin {123, 91, 125, 93, 44, 58, 34, 39, 92, 32, 9, 13}}

\* C12 (as stated): the delimiter is the lowest byte value, from 0 upward,
\* that has no occurrence in the content and is not in the disallow-set; the
\* 'cannot find delimiter' error is raised only when no byte value is both
\* absent from the content and outside of the disallow-set, whatever the rows
\* hold.
C12_Original ==
  /\ Returned =>
       /\ delimiter \in FreeBytes
       /\ \A b \in FreeBytes : delimiter <= b
  /\ pc = "logic_error" => FreeBytes = {}

---------------------------------------------------------------------------
\* The destination of the copy of row i: 0-based positions of the buffer.
DestRange(i) == rq_offsets[i]..(rq_offsets[i] + rq_output_sizes[i] - 1)

\* C13: the per-row copies of remove_quotes may run in any order: the
\* destination ranges of two distinct rows are disjoint, every range lies
\* inside the buffer, whose size is the sum of the output sizes, every output
\* byte is written at most once, and the final buffer is the same whatever
\* the interleaving was (the rows without their quotes, in row order).
C13_DisjointCopies ==
  rq_pc \in {"copy", "returned"} =>
    /\ Len(rq_chars_data) = SumFirst(rq_output_sizes, Len(rq_output_sizes))
    /\ \A i \in DOMAIN rq_input :
         DestRange(i) \subseteq 0..(Len(rq_chars_data) - 1)
    /\ \A i, j \in DOMAIN rq_input :
         i # j => DestRange(i) \cap DestRange(j) = {}
    /\ ~rq_oob
    /\ \A p \in DOMAIN rq_writes : rq_writes[p] <= 1
    /\ rq_pc = "returned" =>
         /\ \A p \in DOMAIN rq_writes : rq_writes[p] = 1
         /\ rq_chars_data =
              Flatten([i \in DOMAIN rq_input |->
                         IF rq_input[i].is_null THEN <<>>
                         ELSE Unquoted(rq_input[i].chars)])

\* The second row is being copied, its last byte first, before the first row.
C13_Witness ==
  /\ rq_pc = "copy"
  /\ Len(rq_input) >= 2
  /\ rq_output_sizes[1] > 0
  /\ rq_output_sizes[2] = 2
  /\ \A k \in 0..(rq_output_sizes[1] - 1) : <<1, k>> \notin rq_copied
  /\ <<2, 1>> \in rq_copied
  /\ <<2, 0>> \notin rq_copied

===========================================================================
